---- MODULE Spec2Model ----
(***************************************************************************)
(* Model of packages/cli/src/ui/commands/removeAllSitesCommand.ts:         *)
(*   - the slash command 'remove-all-sites' and its action (lines 166-185) *)
(*   - the embedded PowerShell script (lines 19-164), statement by         *)
(*     statement, acting on an IIS configuration (sites, their state,      *)
(*     physical directories, application pools, configuration backups)     *)
(*   - the tool-dispatch / approval pipeline that consumes the action's    *)
(*     result; it is not part of this source file and is modelled from     *)
(*     sections 4.3 and 6 of the specification.                            *)
(***************************************************************************)
EXTENDS Integers, Sequences, FiniteSets, TLC

\* ------------------------------------------------------------- bounds
\* Number of distinct results of the action recorded in one behaviour.
MaxReturned == 2

\* ------------------------------------------------------------- universe
NULL == "$null"

DefaultWebSite == "Default Web Site"
DefaultAppPool == "DefaultAppPool"

\* Get-Website lists the sites in id order; this is the order of the ids.
AllSites == <<"Default Web Site", "shop", "intranet">>
SiteNames == {AllSites[k] : k \in 1..Len(AllSites)}

\* A path is the sequence of its components.
WwwRoot      == <<"C:", "inetpub", "wwwroot">>
ShopDir      == <<"C:", "inetpub", "shop">>
ShopLogs     == <<"C:", "inetpub", "shop", "logs">>
WinWeb       == <<"c:", "windows", "web">>
AllDirs      == {WwwRoot, ShopDir, ShopLogs, WinWeb}

\* $_.PhysicalPath and $_.ApplicationPool of each site.
PhysicalPath(s) ==
    CASE s = "Default Web Site" -> WwwRoot
      [] s = "shop"             -> ShopDir
      [] OTHER                  -> WinWeb

ApplicationPool(s) ==
    CASE s = "Default Web Site" -> "DefaultAppPool"
      [] s = "shop"             -> "ShopPool"
      [] OTHER                  -> "DefaultAppPool"

AllPools == {"DefaultAppPool", "ShopPool", "OrphanPool"}

\* The slash command's inputs and the process's working directories.
Contexts == {"ctx1", "ctx2"}
ArgsSet  == {"", "--force"}
Cwds     == {"C:\\work", "C:\\inetpub"}

\* What the user may type at Read-Host (a sequence of characters; Read-Host
\* returns the line without its terminator).
Answers == { <<>>, <<"y">>, <<"Y">>, <<"n">>, <<"N">>, <<"y", "e", "s">>, <<"Y", "y">> }

VARIABLES
    cwd,            \* process.cwd(): ambient state of the CLI process
    returned,       \* the results the action has returned so far, with their inputs
    pending,        \* the action the pipeline is handling (NoAction when none)
    approval,       \* pipeline state of the tool call being handled
    pc,             \* position in the script ("idle" when it is not running)
    sites, started, dirs, pools,   \* IIS: sites, started sites, directories, pools
    sites0, started0, dirs0, pools0,   \* IIS state when the execution began
    backupCreated,  \* whether this execution has created a configuration backup
    backupName,     \* $backupName
    sitesToRemove,  \* $sitesToRemove
    idx,            \* position of the foreach loop in $sitesToRemove
    prompted,       \* whether Read-Host has prompted in this execution
    confirmation,   \* $confirmation
    unusedAppPools  \* $unusedAppPools still to be handled by the inner foreach

iis     == <<sites, started, dirs, pools>>
iis0    == <<sites0, started0, dirs0, pools0>>
locals  == <<backupCreated, backupName, sitesToRemove, idx, prompted, confirmation,
             unusedAppPools>>
cli     == <<cwd, returned, pending, approval>>
vars    == <<cwd, returned, pending, approval, pc, sites, started, dirs, pools,
             sites0, started0, dirs0, pools0, backupCreated, backupName,
             sitesToRemove, idx, prompted, confirmation, unusedAppPools>>

\* ------------------------------------------------------------- the action
\* An excerpt of powerShellScript, as the sequence of its characters: the
\* first line (a '#' line), an empty line, and a statement holding a
\* double-quoted string, each ended by a newline as in the template literal.
powerShellScript ==
    <<"#", "R", "\n", "\n", "W", " ", "\"", "o", "k", "\"", "\n", "e">>

RECURSIVE ReplaceChar(_, _, _)
\* String.prototype.replace(/c/g, by) on a sequence of characters.
ReplaceChar(s, c, by) ==
    IF s = <<>> THEN <<>>
    ELSE (IF Head(s) = c THEN by ELSE <<Head(s)>>) \o ReplaceChar(Tail(s), c, by)

\* powerShellScript.replace(/"/g, '\\"').replace(/\n/g, '; ')
FlattenedScript ==
    ReplaceChar(ReplaceChar(powerShellScript, "\"", <<"\\", "\"">>), "\n", <<";", " ">>)

\* const command = `powershell -ExecutionPolicy Bypass -Command "${...}"`
command ==
    <<"powershell -ExecutionPolicy Bypass -Command ", "\"">> \o FlattenedScript \o <<"\"">>

\* A mutant of ActionResult: the action returns a plain message instead of a
\* tool request.
ActionResult_NotATool(context, args, processCwd) ==
    [ type    |-> "message",
      content |-> "Removing all IIS sites except Default Web Site" ]

\* The value the action returns (lines 175-183). It reads neither context
\* nor args; directory is process.cwd() at the time of the call.
ActionResult(context, args, processCwd) ==
    [ type     |-> "tool",
      toolName |-> "run_shell_command",
      toolArgs |-> [ command     |-> command,
                     description |-> "Removing all IIS sites except Default Web Site",
                     directory   |-> processCwd ] ]

\* ------------------------------------------------------------- script helpers
\* Case folding of the strings the script compares (PowerShell's -ne,
\* -eq, -match and -notmatch ignore case).
ToLower(c) ==
    CASE c = "Default Web Site" -> "default web site"
      [] c = "C:"               -> "c:"
      [] c = "Windows"          -> "windows"
      [] c = "Y"                -> "y"
      [] c = "N"                -> "n"
      [] OTHER                  -> c

DriveLetters == {"c:", "d:"}

\* A mutant of Confirmed: the pattern without its anchors, '[Yy]'.
Confirmed_Unanchored(answer) ==
    \E k \in 1..Len(answer) : ToLower(answer[k]) = "y"

\* $confirmation -match '^[Yy]$' (line 102 tests -notmatch).
Confirmed(answer) ==
    /\ Len(answer) = 1
    /\ ToLower(answer[1]) = "y"

\* A mutant of IsToRemove: the filter keeps every site.
IsToRemove_All(name) == TRUE

\* Where-Object { $_.Name -ne "Default Web Site" } (line 88)
IsToRemove(name) == ToLower(name) # ToLower(DefaultWebSite)

\* Get-Website: the existing sites, in id order.
GetWebsite(S) == SelectSeq(AllSites, LAMBDA s : s \in S)

\* $path -match '^[A-Za-z]:\\Windows\\' (line 126): a drive, the component
\* Windows, and a separator after it.
IsSystemPath(path) ==
    /\ Len(path) >= 3
    /\ ToLower(path[1]) \in DriveLetters
    /\ ToLower(path[2]) = "windows"

IsPrefix(p, q) == Len(p) <= Len(q) /\ SubSeq(q, 1, Len(p)) = p

\* The application pools no site uses, DefaultAppPool excepted (lines 131-135).
UnusedAppPools(P, S) ==
    { p \in P : /\ { s \in S : ApplicationPool(s) = p } = {}
                /\ ToLower(p) # ToLower(DefaultAppPool) }

\* ------------------------------------------------------------- initial state
NoAction == [ type |-> "none" ]

\* The script is not running: it has no variables, and the IIS state at
\* the start of the execution is the current one.
ScriptNotRunning ==
    /\ pc = "idle"
    /\ sites0 = sites /\ started0 = started /\ dirs0 = dirs /\ pools0 = pools
    /\ backupCreated = FALSE
    /\ backupName = NULL
    /\ sitesToRemove = <<>>
    /\ idx = 1
    /\ prompted = FALSE
    /\ confirmation = <<>>
    /\ unusedAppPools = {}

\* The CLI has started and nothing has been entered yet; the server has the
\* default site and one more site, both started.
Init ==
    /\ cwd \in Cwds
    /\ returned = {}
    /\ pending = NoAction
    /\ approval = "none"
    /\ sites = {"Default Web Site", "shop"}
    /\ started = sites
    /\ dirs = AllDirs
    /\ pools = AllPools
    /\ ScriptNotRunning

\* ------------------------------------------------------------- the CLI
\* The process changes its working directory (ambient state), between two
\* commands.
Chdir ==
    /\ approval = "none"
    /\ \E d \in Cwds : d # cwd /\ cwd' = d
    /\ UNCHANGED <<returned, pending, approval, pc, iis, iis0, locals>>

\* The user enters /remove-all-sites: the command's action is called with a
\* context and args, and its result is handed to the pipeline. The action
\* itself builds a string and returns (lines 171-184). A command is taken
\* only while the pipeline is free (specification, section 5).
InvokeAction ==
    /\ approval = "none"
    /\ \E context \in Contexts, args \in ArgsSet :
          LET result == ActionResult(context, args, cwd)
              call   == [ context |-> context, args |-> args, result |-> result ]
          IN  /\ call \in returned \/ Cardinality(returned) < MaxReturned
              /\ returned' = returned \cup {call}
              /\ pending' = result
    /\ approval' = "Returned"
    /\ UNCHANGED <<cwd, pc, iis, iis0, locals>>

\* The registry's classification of a tool name: run_shell_command is
\* destructive, and an unknown name is treated as destructive.
NonDestructiveTools == {"list_dir", "read_file"}
Destructive(toolName) == toolName \notin NonDestructiveTools

\* The pipeline takes the returned action: a tool action becomes a tool call,
\* which waits for approval when its tool is destructive.
Dispatch ==
    /\ approval = "Returned"
    /\ IF pending.type = "tool"
       THEN /\ approval' = IF Destructive(pending.toolName) THEN "Pending" ELSE "Approved"
            /\ UNCHANGED pending
       ELSE /\ approval' = "none"
            /\ pending' = NoAction
    /\ UNCHANGED <<cwd, returned, pc, iis, iis0, locals>>

\* The approval request is resolved (by the user or by policy).
Approve ==
    /\ approval = "Pending"
    /\ approval' = "Approved"
    /\ UNCHANGED <<cwd, returned, pending, pc, iis, iis0, locals>>

Deny ==
    /\ approval = "Pending"
    /\ approval' = "none"
    /\ pending' = NoAction
    /\ UNCHANGED <<cwd, returned, pc, iis, iis0, locals>>

StartOfExecution ==
    /\ sites0' = sites /\ started0' = started /\ dirs0' = dirs /\ pools0' = pools
    /\ backupCreated' = FALSE
    /\ backupName' = NULL
    /\ sitesToRemove' = <<>>
    /\ idx' = 1
    /\ prompted' = FALSE
    /\ confirmation' = <<>>
    /\ unusedAppPools' = {}

\* The approved tool call runs its command, and the statements of the
\* embedded script execute.
Execute ==
    /\ approval = "Approved"
    /\ pc = "idle"
    /\ approval' = "Executing"
    /\ pc' = "import"
    /\ StartOfExecution
    /\ UNCHANGED <<cwd, returned, pending, iis>>

\* The approved tool call runs its command, and the shell reads the
\* flattened script, a single line that begins with '#', as a comment:
\* no statement of the script executes.
ExecuteAsComment ==
    /\ approval = "Approved"
    /\ pc = "idle"
    /\ Head(FlattenedScript) = "#"
    /\ \A k \in 1..Len(FlattenedScript) : FlattenedScript[k] # "\n"
    /\ approval' = "Executing"
    /\ pc' = "exited"
    /\ StartOfExecution
    /\ UNCHANGED <<cwd, returned, pending, iis>>

\* The shell command has ended (its process and variables are gone) and
\* the pipeline is free again.
ToolDone ==
    /\ approval = "Executing"
    /\ pc = "exited"
    /\ approval' = "none"
    /\ pc' = "idle"
    /\ pending' = NoAction
    /\ StartOfExecution
    /\ UNCHANGED <<cwd, returned, iis>>

\* ------------------------------------------------------------- the script
site == sitesToRemove[idx]

\* The catch of lines 147-149, or the end of the loop body: the foreach
\* moves to the next site.
NextSite ==
    /\ idx' = idx + 1
    /\ unusedAppPools' = {}
    /\ pc' = "loop"

\* Lines 43-50: Import-Module, exit 1 when it fails.
ImportModule ==
    /\ pc = "import"
    /\ pc' \in {"backup", "exited"}
    /\ UNCHANGED <<cli, iis, iis0, locals>>

\* Lines 53-64 and 85: $backupName = Backup-IISConfiguration. The cmdlet
\* succeeds, or throws (caught: $null is returned), or reports an error
\* that does not throw (the name is returned though no backup was made).
BackupIISConfiguration ==
    /\ pc = "backup"
    /\ \/ backupCreated' = TRUE  /\ backupName' = "BeforeRemoveAllSites"
       \/ backupCreated' = FALSE /\ backupName' = NULL
       \/ backupCreated' = FALSE /\ backupName' = "BeforeRemoveAllSites"
    /\ pc' = "getsites"
    /\ UNCHANGED <<cli, iis, iis0,
                   sitesToRemove, idx, prompted, confirmation, unusedAppPools>>

\* Lines 88-93: $sitesToRemove, exit 0 when it is empty (Get-Website may
\* fail and leave it empty).
GetSitesToRemove ==
    /\ pc = "getsites"
    /\ sitesToRemove' \in {SelectSeq(GetWebsite(sites), IsToRemove), <<>>}
    /\ pc' = IF Len(sitesToRemove') = 0 THEN "exited" ELSE "confirm"
    /\ UNCHANGED <<cli, iis, iis0, backupCreated, backupName, idx, prompted, confirmation,
                   unusedAppPools>>

\* Lines 101-105: Read-Host and the test of the answer. When the host
\* cannot prompt, $confirmation stays unset.
Confirm ==
    /\ pc = "confirm"
    /\ \/ \E answer \in Answers : prompted' = TRUE /\ confirmation' = answer
       \/ prompted' = FALSE /\ confirmation' = <<>>
    /\ pc' = IF Confirmed(confirmation') THEN "loop" ELSE "exited"
    /\ UNCHANGED <<cli, iis, iis0, backupCreated, backupName, sitesToRemove, idx,
                   unusedAppPools>>

\* Line 108: foreach ($site in $sitesToRemove).
LoopHead ==
    /\ pc = "loop"
    /\ pc' = IF idx > Len(sitesToRemove) THEN "final" ELSE "stop"
    /\ UNCHANGED <<cli, iis, iis0, locals>>

\* Lines 116-119: Stop-Website when the site is started. It succeeds, or
\* throws (line 147 catches), or reports an error and the script goes on.
StopWebsite ==
    /\ pc = "stop"
    /\ IF site \in started
       THEN \/ /\ started' = started \ {site}
               /\ pc' = "remove"
               /\ UNCHANGED <<idx, unusedAppPools>>
            \/ /\ UNCHANGED started
               /\ NextSite
            \/ /\ pc' = "remove"
               /\ UNCHANGED <<started, idx, unusedAppPools>>
       ELSE /\ pc' = "remove"
            /\ UNCHANGED <<started, idx, unusedAppPools>>
    /\ UNCHANGED <<cli, sites, dirs, pools, iis0,
                   backupCreated, backupName, sitesToRemove, prompted, confirmation>>

\* Line 122: Remove-Website, with the same three outcomes.
RemoveWebsite ==
    /\ pc = "remove"
    /\ \/ /\ sites' = sites \ {site}
          /\ started' = started \ {site}
          /\ pc' = "rmdir"
          /\ UNCHANGED <<idx, unusedAppPools>>
       \/ /\ UNCHANGED <<sites, started>>
          /\ NextSite
       \/ /\ pc' = "rmdir"
          /\ UNCHANGED <<sites, started, idx, unusedAppPools>>
    /\ UNCHANGED <<cli, dirs, pools, iis0,
                   backupCreated, backupName, sitesToRemove, prompted, confirmation>>

\* Lines 67-79 and 126-128: Remove-WebDirectory on the site's path, unless
\* the path is empty or a system path. Remove-Item -Recurse removes the
\* directory and what is below it; when it fails it may have removed
\* nothing, or only what is below.
RemoveWebDirectory ==
    /\ pc = "rmdir"
    /\ LET physicalPath == PhysicalPath(site) IN
       IF physicalPath # <<>> /\ ~IsSystemPath(physicalPath) /\ physicalPath \in dirs
       THEN \/ dirs' = { d \in dirs : ~IsPrefix(physicalPath, d) }
            \/ dirs' = dirs
            \/ dirs' = { d \in dirs : d = physicalPath \/ ~IsPrefix(physicalPath, d) }
       ELSE dirs' = dirs
    /\ pc' = "getpools"
    /\ UNCHANGED <<cli, sites, started, pools, iis0, locals>>

\* Lines 131-135: $unusedAppPools. Get-IISAppPool may throw (line 147
\* catches) or fail without throwing (nothing is selected).
GetUnusedAppPools ==
    /\ pc = "getpools"
    /\ \/ /\ unusedAppPools' = UnusedAppPools(pools, sites)
          /\ pc' = "rmpools"
          /\ UNCHANGED idx
       \/ NextSite
       \/ /\ unusedAppPools' = {}
          /\ pc' = "rmpools"
          /\ UNCHANGED idx
    /\ UNCHANGED <<cli, iis, iis0, backupCreated, backupName, sitesToRemove, prompted,
                   confirmation>>

\* Lines 137-145: Remove-WebAppPool on one unused pool; a failure is caught
\* inside the loop.
RemoveWebAppPool ==
    /\ pc = "rmpools"
    /\ unusedAppPools # {}
    /\ \E pool \in unusedAppPools :
          /\ pools' \in {pools \ {pool}, pools}
          /\ unusedAppPools' = unusedAppPools \ {pool}
    /\ UNCHANGED <<cli, pc, sites, started, dirs, iis0,
                   backupCreated, backupName, sitesToRemove, idx, prompted, confirmation>>

\* The inner foreach has no pool left: end of the loop body.
EndOfBody ==
    /\ pc = "rmpools"
    /\ unusedAppPools = {}
    /\ NextSite
    /\ UNCHANGED <<cli, iis, iis0, backupCreated, backupName, sitesToRemove, prompted,
                   confirmation>>

\* Lines 152-164: the final report; the script ends.
FinalStatus ==
    /\ pc = "final"
    /\ pc' = "exited"
    /\ UNCHANGED <<cli, iis, iis0, locals>>

Next ==
    \/ Chdir
    \/ InvokeAction
    \/ Dispatch
    \/ Approve
    \/ Deny
    \/ Execute
    \/ ExecuteAsComment
    \/ ToolDone
    \/ ImportModule
    \/ BackupIISConfiguration
    \/ GetSitesToRemove
    \/ Confirm
    \/ LoopHead
    \/ StopWebsite
    \/ RemoveWebsite
    \/ RemoveWebDirectory
    \/ GetUnusedAppPools
    \/ RemoveWebAppPool
    \/ EndOfBody
    \/ FinalStatus

Spec == Init /\ [][Next]_vars

\* ------------------------------------------------------------- one execution
\* An approved /remove-all-sites tool call is about to run, on a server in
\* any IIS configuration.
InitScript ==
    /\ cwd = "C:\\work"
    /\ pending = ActionResult("ctx1", "", cwd)
    /\ returned = { [ context |-> "ctx1", args |-> "", result |-> pending ] }
    /\ approval = "Approved"
    /\ sites \in SUBSET SiteNames
    /\ started \in SUBSET sites
    /\ dirs \in { D \in SUBSET AllDirs : ShopLogs \in D => ShopDir \in D }
    /\ pools \in SUBSET AllPools
    /\ ScriptNotRunning

NextScript ==
    \/ Execute
    \/ ExecuteAsComment
    \/ ToolDone
    \/ ImportModule
    \/ BackupIISConfiguration
    \/ GetSitesToRemove
    \/ Confirm
    \/ LoopHead
    \/ StopWebsite
    \/ RemoveWebsite
    \/ RemoveWebDirectory
    \/ GetUnusedAppPools
    \/ RemoveWebAppPool
    \/ EndOfBody
    \/ FinalStatus

SpecScript == InitScript /\ [][NextScript]_vars

\* ------------------------------------------------------------- properties
Yes == { <<"y">>, <<"Y">> }

ToolActionShape(result) ==
    /\ result.type = "tool"
    /\ DOMAIN result = {"type", "toolName", "toolArgs"}
    /\ result.toolName = "run_shell_command"
    /\ DOMAIN result.toolArgs = {"command", "description", "directory"}

\* C1: whatever the context and args, the action of 'remove-all-sites' runs
\* nothing itself (the step that calls it leaves the script not running and
\* the IIS state as it was); it returns one action of type 'tool' naming
\* 'run_shell_command' with the arguments command, description and
\* directory; and the script starts only from an approved tool call and
\* runs only while that call is executing.
C1_ToolActionThroughPipeline ==
    /\ [](/\ \A call \in returned : ToolActionShape(call.result)
          /\ pc # "idle" => approval = "Executing" /\ ToolActionShape(pending))
    /\ [][ /\ (returned' # returned \/ approval' = "Returned")
                => (pc = "idle" /\ UNCHANGED <<pc, iis>>)
           /\ (pc = "idle" /\ pc' # "idle") => approval = "Approved" ]_vars

\* A site has been removed by the script while the approved call executes.
C1_Witness ==
    /\ approval = "Executing"
    /\ pc = "rmdir"
    /\ "shop" \in sites0 \ sites
    /\ \E call \in returned : call.result = pending

\* C2: in every execution of the script, from any IIS configuration and
\* whatever steps fail, 'Default Web Site' is neither removed nor stopped:
\* if it existed (was started) when the execution began, it exists (is
\* started) in every state.
C2_DefaultWebSiteKept ==
    /\ DefaultWebSite \in sites0 => DefaultWebSite \in sites
    /\ DefaultWebSite \in started0 => DefaultWebSite \in started

\* Both other sites have been removed and the default site is still there.
C2_Witness ==
    /\ pc = "final"
    /\ DefaultWebSite \in started0
    /\ sites0 = SiteNames
    /\ sites = {DefaultWebSite}

\* C3: whenever a site has been removed, an IIS configuration backup was
\* created earlier in the same execution.
C3_BackupBeforeRemoval ==
    sites0 \ sites # {} => backupCreated

\* C4: nothing is stopped or removed (sites, their state, directories and
\* application pools are as they were when the execution began) unless the
\* user was prompted and answered exactly 'y' or 'Y'; after any other
\* answer the script has ended with all of them unchanged.
C4_NothingChangesWithoutYes ==
    /\ iis # iis0 => prompted /\ confirmation \in Yes
    /\ (prompted /\ confirmation \notin Yes) => (pc = "exited" /\ iis = iis0)

\* After the answer 'Y' the script has removed sites, directories and
\* application pools.
C4_Witness ==
    /\ prompted
    /\ confirmation = <<"Y">>
    /\ sites # sites0
    /\ dirs # dirs0
    /\ pools # pools0

\* C5: two calls of the action with the same context and args return the
\* same tool action, whatever the working directory of the process was at
\* each call.
C5_SameInputsSameAction ==
    \A a, b \in returned :
        (a.context = b.context /\ a.args = b.args) => a.result = b.result

====
